---- MODULE Spec2Model ----
(***************************************************************************)
(* Model of the HBL unified-checkout controllers.                          *)
(*                                                                         *)
(* The repository holds five versions of the same React component:         *)
(*   "listener"     src/src/HblUnifiedCheckout.tsx   1..268                *)
(*   "plain"        src/src/HblUnifiedCheckout.tsx 269..510                *)
(*   "dispose"      src/src/HblUnifiedCheckout.tsx 511..797                *)
(*   "closeApp"     src/src/HblUnifiedCheckout.tsx 798..1055               *)
(*   "bankTransfer" src/unnamed/part_000                                   *)
(* One behaviour of the model is one mounted component of one version.     *)
(* Every handler runs to its next await (JavaScript is run-to-completion), *)
(* so an action is one handler segment between two suspension points.      *)
(***************************************************************************)
EXTENDS Integers, Sequences, FiniteSets, TLC

\* ------------------------------------------------------------------ bounds
\* number of script elements (sessions) one behaviour may inject
MaxSessions == 2

\* ---------------------------------------------------------------- versions
Variants == {"listener", "plain", "dispose", "closeApp", "bankTransfer"}

\* versions whose script.onload arms a window 'message' listener
ArmsListener(v) == v \in {"listener", "closeApp", "bankTransfer"}
\* versions that render a Reset button wired to handleReset
HasReset(v) == v # "bankTransfer"
\* versions that set script.onerror
HasOnError(v) == v # "bankTransfer"
\* versions whose initializeCheckout clears isError / isSuccess
ClearsFlags(v) == v # "bankTransfer"

\* ------------------------------------------------------------------ tokens
\* A token is a sequence of characters; "." separates the segments, " " is
\* whitespace, "-" and "_" are the URL-safe base64 characters.
TokEmpty == <<>>
TokBlank == <<" ">>
TokOnePart == <<"x">>
TokBadB64 == <<"h", ".", "!", ".", "s">>
TokGood == <<"h", ".", "G", ".", "s">>
TokGoodUrlSafe == <<"h", ".", "G", "-", "_", ".", "s">>

\* a three-segment token whose payload segment is the one character c
TokWith(c) == <<"h", ".", c, ".", "s">>
\* two segments only: header and payload, no signature
TokTwoParts == <<"h", ".", "G">>
\* an empty payload segment
TokEmptyPayload == <<"h", ".", ".", "s">>

\* one-character payload segments: "J" is base64 of text that is not JSON,
\* "N" of the JSON text null, the others of a JSON object (see Payloads)
PayloadChars == {"G", "J", "N", "A", "B", "C", "D", "E", "F", "H", "I"}

Tokens ==
    {TokEmpty, TokBlank, TokOnePart, TokBadB64, TokGood, TokGoodUrlSafe,
     TokTwoParts, TokEmptyPayload} \cup {TokWith(c) : c \in PayloadChars}

\* the tokens a behaviour of the controller types into the textarea
JwtInputs == {TokEmpty, TokOnePart, TokGood}

RECURSIVE SplitFrom(_, _, _)
SplitFrom(tok, i, cur) ==
    IF i > Len(tok) THEN <<cur>>
    ELSE IF tok[i] = "." THEN <<cur>> \o SplitFrom(tok, i + 1, <<>>)
    ELSE SplitFrom(tok, i + 1, Append(cur, tok[i]))

\* token.split('.')
Split(tok) == SplitFrom(tok, 1, <<>>)

\* the emptiness test without trim()
IsEmptyString(tok) == tok = <<>>

\* jwt.trim(): the token with leading and trailing whitespace removed is
\* empty exactly when every character is whitespace
TrimIsEmpty(tok) == \A i \in 1..Len(tok) : tok[i] = " "

\* base64Url.replace(/-/g, '+').replace(/_/g, '/')
Normalize(seg) ==
    [i \in 1..Len(seg) |->
        IF seg[i] = "-" THEN "+" ELSE IF seg[i] = "_" THEN "/" ELSE seg[i]]

\* a property that is absent from a parsed JSON object reads as undefined
Undefined == "undefined"

\* the object payload.ctx[0].data with its two library properties
Data(lib, integ) == [clientLibrary |-> lib, clientLibraryIntegrity |-> integ]

\* a parsed payload: isObject is FALSE for the JSON value null, hasCtx says
\* whether payload.ctx exists, ctx is the array, and each element says
\* whether its data property exists
Payload(entries) == [isObject |-> TRUE, hasCtx |-> TRUE, ctx |-> entries]
PayloadNull == [isObject |-> FALSE, hasCtx |-> FALSE, ctx |-> <<>>]
PayloadNoCtx == [isObject |-> TRUE, hasCtx |-> FALSE, ctx |-> <<>>]
WithData(d) == [hasData |-> TRUE, data |-> d]
WithoutData == [hasData |-> FALSE, data |-> Data(Undefined, Undefined)]

\* window.atob followed by JSON.parse, on the payload alphabet of the model:
\* the standard-alphabet segments below decode to a JSON value, every other
\* segment makes atob or JSON.parse throw ("-" and "_" are not in atob's
\* alphabet, "!" is not base64, "J" and the empty segment are not JSON).
Payloads ==
    [seg \in {<<"G">>, <<"G", "+", "/">>, <<"N">>, <<"A">>, <<"B">>, <<"C">>,
              <<"D">>, <<"E">>, <<"F">>, <<"H">>, <<"I">>} |->
        CASE seg = <<"N">> -> PayloadNull
          [] seg = <<"A">> -> PayloadNoCtx
          [] seg = <<"B">> -> Payload(<<>>)
          [] seg = <<"C">> -> Payload(<<WithoutData>>)
          [] seg = <<"D">> -> Payload(<<WithData(Data(Undefined, "D"))>>)
          [] seg = <<"E">> -> Payload(<<WithData(Data("", "D"))>>)
          [] seg = <<"F">> -> Payload(<<WithData(Data("L", Undefined))>>)
          [] seg = <<"H">> -> Payload(<<WithData(Data("L", ""))>>)
          [] seg = <<"I">> -> Payload(<<WithData(Data(Undefined, Undefined))>>)
          [] OTHER -> Payload(<<WithData(Data("L", "D"))>>)]

NoMetadata == [url |-> "null", integrity |-> "null"]

\* payload.ctx[0].data throws a TypeError: payload is null, payload.ctx is
\* undefined, the array is empty, or its first element has no data
ReadThrows(payload) ==
    \/ ~payload.isObject
    \/ ~payload.hasCtx
    \/ Len(payload.ctx) = 0
    \/ ~payload.ctx[1].hasData

\* getSdkMetadata: null (NoMetadata) when anything in the try block throws,
\* otherwise the record of the two properties as they were read
getSdkMetadata(tok) ==
    LET segs == Split(tok) IN
    IF Len(segs) < 2 THEN NoMetadata
    ELSE LET base64 == Normalize(segs[2]) IN
         IF base64 \notin DOMAIN Payloads THEN NoMetadata
         ELSE IF ReadThrows(Payloads[base64]) THEN NoMetadata
         ELSE [url |-> Payloads[base64].ctx[1].data.clientLibrary,
               integrity |-> Payloads[base64].ctx[1].data.clientLibraryIntegrity]

\* ----------------------------------------------------- rejection values
CancelCode == "COMPLETE_TRANSACTION_CANCELLED"

\* values a vendor promise may reject with: isErr is `instanceof Error`
ErrCancelObj == [isErr |-> FALSE, reason |-> CancelCode, message |-> "undefined"]
ErrCancelErr == [isErr |-> TRUE, reason |-> CancelCode, message |-> "Transaction cancelled"]
ErrBoom == [isErr |-> TRUE, reason |-> "undefined", message |-> "boom"]
ErrOtherObj == [isErr |-> FALSE, reason |-> "OTHER", message |-> "bad"]
\* an Error whose message mentions a cancellation but that carries no reason
ErrCancelText == [isErr |-> TRUE, reason |-> "undefined", message |-> "Transaction cancelled"]

Errs == {ErrCancelObj, ErrCancelErr, ErrBoom, ErrOtherObj, ErrCancelText}

\* err?.reason === 'COMPLETE_TRANSACTION_CANCELLED'
HasCancelReason(e) == e.reason = CancelCode

\* showErr instanceof Error ? showErr.message : String(showErr || '')
ShowMsg(e) == IF e.isErr THEN e.message ELSE "[object Object]"

\* msg.includes('COMPLETE_TRANSACTION_CANCELED') ||
\* msg.toLowerCase().includes('cancel'), on the messages of the model
MentionsCancel(msg) == msg \in {"Transaction cancelled"}

\* err instanceof Error ? err.message : 'Initialization failed'
ErrorMsgInstanceof(e) == IF e.isErr THEN e.message ELSE "Initialization failed"

\* err?.message || 'Initialization failed'
ErrorMsgOr(e) == IF e.message = "undefined" THEN "Initialization failed" ELSE e.message

\* --------------------------------------------------------------- messages
\* values of event.data delivered to window 'message' listeners
MsgTelegramClose == "telegram:CLOSE"
MsgTelegramOther == "telegram:OPEN"
MsgTelegramBadJson == "telegram:notjson"
MsgCloseApp == "object:mce:App::closeApp"
MsgOtherObject == "object:other"
MsgNull == "null"

Msgs == {MsgTelegramClose, MsgTelegramOther, MsgTelegramBadJson,
         MsgCloseApp, MsgOtherObject, MsgNull}

\* typeof event.data === 'string' && includes('/*cybs-telgram*/') and the
\* JSON body parses to an object whose event is 'CLOSE'
IsTelegramClose(m) == m = MsgTelegramClose

\* event.data && event.data.source === 'mce:App::closeApp'
IsCloseApp(m) == m = MsgCloseApp

\* does the listener of version v take a close branch on message m
Recognizes(v, m) ==
    CASE v = "listener" -> IsTelegramClose(m) \/ IsCloseApp(m)
      [] v = "closeApp" -> IsCloseApp(m)
      [] v = "bankTransfer" -> IsTelegramClose(m)
      [] OTHER -> FALSE

\* ------------------------------------------------------------------ status
St(kind) == [kind |-> kind, msg |-> ""]
StError(msg) == [kind |-> "Error", msg |-> msg]

\* ------------------------------------------------------------------- state
VARIABLES
    variant,    \* which version of the component is mounted
    mounted,    \* FALSE once navigate('/summary-page') replaced the route
    jwt,        \* useState jwt
    status,     \* useState status
    isLoaded,   \* useState isLoaded
    isSuccess,  \* useState isSuccess
    isError,    \* useState isError
    sdkRef,     \* sdkRef.current: index of the held script, 0 for null
    acceptRef,  \* acceptRef.current: session whose instance is held, 0 for null
    container,  \* content of #payment-screen-container put there by the SDK
    sessions,   \* one record per injected script and its onload closure
    navCount    \* number of navigate('/summary-page') calls

vars == <<variant, mounted, jwt, status, isLoaded, isSuccess, isError,
          sdkRef, acceptRef, container, sessions, navCount>>

\* a freshly injected script: its onload closure has not run yet
NewSession ==
    [pc |-> "loading",      \* loading, accept, up, show, done
     attached |-> TRUE,     \* the script element is a child of document.head
     listener |-> "none",   \* the closure's message listener: none (never
                            \* added), armed (registered on window),
                            \* closedEarly / closedShow (it removed itself in
                            \* its close branch, before / while show() was
                            \* pending), removed (removed by the closure)
     result |-> "none",     \* branch the closure ended on
     instance |-> "none",   \* the Accept instance: none, live, disposed
     superseded |-> FALSE,  \* the closure is awaiting the SDK and handleReset
                            \* ran since it started to
     navs |-> 0,            \* navigate calls made by this closure
     src |-> "",            \* script.src
     integrity |-> ""]      \* script.integrity

Ids == 1..Len(sessions)

Init ==
    /\ variant \in Variants
    /\ mounted = TRUE
    /\ jwt = TokEmpty
    /\ status = St("Waiting")
    /\ isLoaded = FALSE
    /\ isSuccess = FALSE
    /\ isError = FALSE
    /\ sdkRef = 0
    /\ acceptRef = 0
    /\ container = "empty"
    /\ sessions = <<>>
    /\ navCount = 0

\* React drops state updates of an unmounted component
Set(old, new) == IF mounted THEN new ELSE old


\* ----------------------------------------------------------- DOM helpers
\* disposeAccept: dispose the held instance if any, then acceptRef = null
Disposed(ss, ref) ==
    IF ref # 0 /\ ss[ref].instance = "live"
    THEN [ss EXCEPT ![ref].instance = "disposed"]
    ELSE ss

\* document.head.removeChild(sdkRef.current)
Detached(ss, ref) ==
    IF ref # 0 THEN [ss EXCEPT ![ref].attached = FALSE] ELSE ss

\* window.removeEventListener('message', listener of session s)
Unlistened(ss, s) ==
    IF ss[s].listener = "none" THEN ss ELSE [ss EXCEPT ![s].listener = "removed"]

\* the closure of session s returns on branch r
Returned(ss, s, r) ==
    [ss EXCEPT ![s].pc = "done", ![s].result = r, ![s].superseded = FALSE]

\* the Initialize button and the textarea: disabled={isLoaded && !isError}
InitializeEnabled == mounted /\ ~(isLoaded /\ ~isError)

\* the Reset button: disabled={!isLoaded && !isError && jwt === ''}
ResetEnabled ==
    mounted /\ HasReset(variant) /\ ~(~isLoaded /\ ~isError /\ jwt = TokEmpty)

\* ------------------------------------------------------------ UI handlers
\* textarea onChange={(e) => setJwt(e.target.value)}
SetJwt(t) ==
    /\ InitializeEnabled
    /\ t # jwt
    /\ jwt' = t
    /\ UNCHANGED <<variant, mounted, status, isLoaded, isSuccess, isError,
                   sdkRef, acceptRef, container, sessions, navCount>>

\* the early returns, were they to let go of the held script as well
InitializeRejectedDropsHandle ==
    /\ InitializeEnabled
    /\ TrimIsEmpty(jwt) \/ getSdkMetadata(jwt) = NoMetadata
    /\ isError' = TRUE
    /\ isSuccess' = IF ClearsFlags(variant) THEN FALSE ELSE isSuccess
    /\ status' = IF TrimIsEmpty(jwt) THEN St("ErrEmpty") ELSE St("ErrInvalid")
    /\ sdkRef' = 0
    /\ isLoaded' = FALSE
    /\ UNCHANGED <<variant, mounted, jwt, acceptRef, container, sessions,
                   navCount>>

\* initializeCheckout, the two early returns: empty token, undecodable token
InitializeRejected ==
    /\ InitializeEnabled
    /\ UNCHANGED <<variant, mounted, jwt, isLoaded, sdkRef, acceptRef,
                   container, sessions, navCount>>
    /\ isError' = TRUE
    /\ isSuccess' = IF ClearsFlags(variant) THEN FALSE ELSE isSuccess
    /\ TrimIsEmpty(jwt) \/ getSdkMetadata(jwt) = NoMetadata
    /\ status' = IF TrimIsEmpty(jwt) THEN St("ErrEmpty") ELSE St("ErrInvalid")

\* initializeCheckout past decoding, without its setIsLoaded(true)
InitializeInjectsNotLoaded ==
    /\ InitializeEnabled
    /\ ~TrimIsEmpty(jwt)
    /\ getSdkMetadata(jwt) # NoMetadata
    /\ Len(sessions) < MaxSessions
    /\ LET cleaned == IF variant = "dispose"
                      THEN Detached(Disposed(sessions, acceptRef), sdkRef)
                      ELSE sessions
       IN sessions' = Append(cleaned,
                             [NewSession EXCEPT
                                 !.src = getSdkMetadata(jwt).url,
                                 !.integrity = getSdkMetadata(jwt).integrity])
    /\ acceptRef' = IF variant = "dispose" THEN 0 ELSE acceptRef
    /\ container' = IF variant = "dispose" THEN "empty" ELSE container
    /\ isError' = IF ClearsFlags(variant) THEN FALSE ELSE isError
    /\ isSuccess' = IF ClearsFlags(variant) THEN FALSE ELSE isSuccess
    /\ status' = St("Loading")
    /\ sdkRef' = Len(sessions) + 1
    /\ UNCHANGED <<variant, mounted, jwt, navCount, isLoaded>>

\* initializeCheckout past decoding: create the script, set its handlers,
\* append it to document.head, hold it in sdkRef, setIsLoaded(true).  The
\* dispose version first runs disposeAccept, clearPaymentContainer and
\* removes the script held in sdkRef.
InitializeInjects ==
    /\ InitializeEnabled
    /\ ~TrimIsEmpty(jwt)
    /\ getSdkMetadata(jwt) # NoMetadata
    /\ Len(sessions) < MaxSessions
    /\ LET cleaned == IF variant = "dispose"
                      THEN Detached(Disposed(sessions, acceptRef), sdkRef)
                      ELSE sessions
       IN sessions' = Append(cleaned,
                             [NewSession EXCEPT
                                 !.src = getSdkMetadata(jwt).url,
                                 !.integrity = getSdkMetadata(jwt).integrity])
    /\ acceptRef' = IF variant = "dispose" THEN 0 ELSE acceptRef
    /\ container' = IF variant = "dispose" THEN "empty" ELSE container
    /\ isError' = IF ClearsFlags(variant) THEN FALSE ELSE isError
    /\ isSuccess' = IF ClearsFlags(variant) THEN FALSE ELSE isSuccess
    /\ status' = St("Loading")
    /\ sdkRef' = Len(sessions) + 1
    /\ isLoaded' = TRUE
    /\ UNCHANGED <<variant, mounted, jwt, navCount>>

\* handleReset without the clearing of the payment container
handleResetKeepsSurface ==
    /\ ResetEnabled
    /\ sessions' =
         [s \in Ids |->
             LET cleaned == IF variant = "dispose"
                            THEN Detached(Disposed(sessions, acceptRef), sdkRef)
                            ELSE Detached(sessions, sdkRef)
             IN IF cleaned[s].pc \in {"accept", "up", "show"}
                THEN [cleaned[s] EXCEPT !.superseded = TRUE]
                ELSE cleaned[s]]
    /\ acceptRef' = IF variant = "dispose" THEN 0 ELSE acceptRef
    /\ sdkRef' = 0
    /\ jwt' = TokEmpty
    /\ isLoaded' = FALSE
    /\ isSuccess' = FALSE
    /\ isError' = FALSE
    /\ status' = St("Waiting")
    /\ UNCHANGED <<variant, mounted, navCount, container>>

\* the component's state as one value
State ==
    [variant |-> variant, mounted |-> mounted, jwt |-> jwt, status |-> status,
     isLoaded |-> isLoaded, isSuccess |-> isSuccess, isError |-> isError,
     sdkRef |-> sdkRef, acceptRef |-> acceptRef, container |-> container,
     sessions |-> sessions, navCount |-> navCount]

\* the body of handleReset without clearing sdkRef.current
handleResetKeepsHandle(st) ==
    [st EXCEPT
        !.sessions = IF st.variant = "dispose"
                     THEN Detached(Disposed(st.sessions, st.acceptRef), st.sdkRef)
                     ELSE Detached(st.sessions, st.sdkRef),
        !.acceptRef = IF st.variant = "dispose" THEN 0 ELSE st.acceptRef,
        !.jwt = TokEmpty,
        !.isLoaded = FALSE,
        !.isSuccess = FALSE,
        !.isError = FALSE,
        !.status = St("Waiting"),
        !.container = "empty"]

\* document.head.removeChild(sdkRef.current) throws: the held script is no
\* longer a child of document.head and the call is not inside try/catch
removeChildThrows(st) ==
    st.variant # "dispose" /\ st.sdkRef # 0
    /\ ~st.sessions[st.sdkRef].attached

\* the body of handleReset as a function of the state it is called in.
\* Only the dispose version guards removeChild with try/catch and disposes
\* the held instance; in the others removeChild of a script that is not a
\* child of document.head throws before any setState runs.
handleResetOn(st) ==
    IF removeChildThrows(st)
    THEN st
    ELSE LET cleaned == IF st.variant = "dispose"
                        THEN Detached(Disposed(st.sessions, st.acceptRef),
                                      st.sdkRef)
                        ELSE Detached(st.sessions, st.sdkRef)
         IN [st EXCEPT
                !.sessions =
                    [s \in 1..Len(st.sessions) |->
                        IF cleaned[s].pc \in {"accept", "up", "show"}
                        THEN [cleaned[s] EXCEPT !.superseded = TRUE]
                        ELSE cleaned[s]],
                !.acceptRef = IF st.variant = "dispose" THEN 0 ELSE st.acceptRef,
                !.sdkRef = 0,
                !.jwt = TokEmpty,
                !.isLoaded = FALSE,
                !.isSuccess = FALSE,
                !.isError = FALSE,
                !.status = St("Waiting"),
                !.container = "empty"]

\* handleReset, the onClick handler of the Reset button
handleReset ==
    /\ ResetEnabled
    /\ UNCHANGED <<variant, mounted, navCount>>
    /\ IF removeChildThrows(State)
       THEN UNCHANGED <<jwt, isLoaded, isSuccess, isError, status, sdkRef,
                        acceptRef, container, sessions>>
       ELSE /\ jwt' = TokEmpty
            /\ isLoaded' = FALSE
            /\ isSuccess' = FALSE
            /\ isError' = FALSE
            /\ status' = St("Waiting")
            /\ sdkRef' = 0
            /\ container' = "empty"
            /\ acceptRef' = handleResetOn(State).acceptRef
            /\ sessions' = handleResetOn(State).sessions


\* ------------------------------------------------- script event handlers
\* script.onload, were it to register no listener before the SDK calls
ScriptLoadArmsNothing(s) ==
    /\ sessions[s].pc = "loading"
    /\ sessions' = [sessions EXCEPT ![s].pc = "accept"]
    /\ status' = IF variant = "bankTransfer" THEN status
                 ELSE Set(status, St("SdkLoaded"))
    /\ UNCHANGED <<variant, mounted, jwt, isLoaded, isSuccess, isError,
                   sdkRef, acceptRef, container, navCount>>

\* script.onload up to `await window.Accept(jwt)`: setStatus, then (in the
\* versions that have one) window.addEventListener('message', listener)
ScriptLoad(s) ==
    /\ sessions[s].pc = "loading"
    /\ sessions' = [sessions EXCEPT ![s].pc = "accept",
                                    ![s].listener = IF ArmsListener(variant)
                                                    THEN "armed" ELSE "none"]
    /\ status' = IF variant = "bankTransfer" THEN status
                 ELSE Set(status, St("SdkLoaded"))
    /\ UNCHANGED <<variant, mounted, jwt, isLoaded, isSuccess, isError,
                   sdkRef, acceptRef, container, navCount>>

\* the script's error event, were its handler to go on to window.Accept
ScriptErrorCallsAccept(s) ==
    /\ sessions[s].pc = "loading"
    /\ sessions' = [sessions EXCEPT ![s].pc = "accept"]
    /\ isError' = Set(isError, TRUE)
    /\ isSuccess' = Set(isSuccess, FALSE)
    /\ status' = Set(status, St("ErrLoad"))
    /\ UNCHANGED <<variant, mounted, jwt, isLoaded, sdkRef, acceptRef,
                   container, navCount>>

\* the script's error event: script.onerror, which bankTransfer never sets
ScriptError(s) ==
    /\ sessions[s].pc = "loading"
    /\ sessions' = Returned(sessions, s, "loaderror")
    /\ IF HasOnError(variant)
       THEN /\ isError' = Set(isError, TRUE)
            /\ isSuccess' = Set(isSuccess, FALSE)
            /\ status' = Set(status, St("ErrLoad"))
       ELSE UNCHANGED <<isError, isSuccess, status>>
    /\ UNCHANGED <<variant, mounted, jwt, isLoaded, sdkRef, acceptRef,
                   container, navCount>>

\* the catch block without its removeEventListener
CatchKeepsListener(s, e) ==
    /\ IF ArmsListener(variant) /\ HasCancelReason(e)
       THEN /\ sessions' = Returned(sessions, s, "cancelled")
            /\ UNCHANGED <<isError, isSuccess, status>>
       ELSE /\ sessions' = Returned(sessions, s, "failed")
            /\ isError' = Set(isError, TRUE)
            /\ isSuccess' = isSuccess
            /\ status' = Set(status, StError(ErrorMsgOr(e)))
    /\ UNCHANGED <<variant, mounted, jwt, isLoaded, sdkRef, acceptRef,
                   container, navCount>>

\* the catch block around the awaits of script.onload (in the dispose
\* version the outer catch): remove the listener, return silently on the
\* cancellation reason code, otherwise surface the error
Catch(s, e) ==
    /\ IF ArmsListener(variant) /\ HasCancelReason(e)
       THEN /\ sessions' = Returned(Unlistened(sessions, s), s, "cancelled")
            /\ UNCHANGED <<isError, isSuccess, status>>
       ELSE /\ sessions' = Returned(Unlistened(sessions, s), s, "failed")
            /\ isError' = Set(isError, TRUE)
            /\ isSuccess' = IF variant \in {"closeApp", "bankTransfer"}
                            THEN isSuccess ELSE Set(isSuccess, FALSE)
            /\ status' = Set(status,
                             StError(IF variant \in {"closeApp", "bankTransfer"}
                                     THEN ErrorMsgOr(e)
                                     ELSE ErrorMsgInstanceof(e)))
    /\ UNCHANGED <<variant, mounted, jwt, isLoaded, sdkRef, acceptRef,
                   container, navCount>>

\* window.Accept(jwt) resolved: the dispose version stores the instance in
\* acceptRef; then acceptInstance.unifiedPayments(false) is awaited
AcceptResolves(s) ==
    /\ sessions[s].pc = "accept"
    /\ sessions' = [sessions EXCEPT ![s].pc = "up", ![s].instance = "live"]
    /\ acceptRef' = IF variant = "dispose" THEN s ELSE acceptRef
    /\ UNCHANGED <<variant, mounted, jwt, status, isLoaded, isSuccess,
                   isError, sdkRef, container, navCount>>

\* window.Accept(jwt) threw or rejected
AcceptRejects(s, e) ==
    /\ sessions[s].pc = "accept"
    /\ Catch(s, e)

\* unifiedPayments resolved: setStatus, createTrigger, trigger.show() is
\* issued and renders the entry form into the container
UpResolves(s) ==
    /\ sessions[s].pc = "up"
    /\ sessions' = [sessions EXCEPT ![s].pc = "show"]
    /\ status' = Set(status, IF variant = "dispose" THEN St("WaitingUser")
                             ELSE St("Ready"))
    /\ container' = "form"
    /\ UNCHANGED <<variant, mounted, jwt, isLoaded, isSuccess, isError,
                   sdkRef, acceptRef, navCount>>

\* unifiedPayments rejected or createTrigger threw
UpRejects(s, e) ==
    /\ sessions[s].pc = "up"
    /\ Catch(s, e)

\* the success path without its removeEventListener
ShowResolvesKeepsListener(s) ==
    /\ sessions[s].pc = "show"
    /\ sessions' = Returned(sessions, s, "success")
    /\ isSuccess' = Set(isSuccess, TRUE)
    /\ isError' = isError
    /\ status' = Set(status, St("Success"))
    /\ UNCHANGED <<variant, mounted, jwt, isLoaded, sdkRef, acceptRef,
                   container, navCount>>

\* trigger.show() resolved with the transient token
ShowResolves(s) ==
    /\ sessions[s].pc = "show"
    /\ sessions' = Returned(Unlistened(sessions, s), s, "success")
    /\ isSuccess' = Set(isSuccess, TRUE)
    /\ isError' = IF variant \in {"closeApp", "bankTransfer"}
                  THEN isError ELSE Set(isError, FALSE)
    /\ status' = Set(status, St("Success"))
    /\ UNCHANGED <<variant, mounted, jwt, isLoaded, sdkRef, acceptRef,
                   container, navCount>>

\* trigger.show() rejected, dispose version: the inner catch (showErr)
ShowRejectsDispose(s, e) ==
    /\ variant = "dispose"
    /\ sessions[s].pc = "show"
    /\ IF MentionsCancel(ShowMsg(e))
       THEN /\ isError' = Set(isError, FALSE)
            /\ isSuccess' = Set(isSuccess, FALSE)
            /\ status' = Set(status, St("Cancelled"))
            /\ sessions' = [Returned(Disposed(sessions, acceptRef), s, "cancelled")
                                EXCEPT ![s].navs = @ + 1]
            /\ acceptRef' = 0
            /\ container' = "empty"
            /\ navCount' = navCount + 1
            /\ mounted' = FALSE
       ELSE /\ isError' = Set(isError, TRUE)
            /\ isSuccess' = Set(isSuccess, FALSE)
            /\ status' = Set(status, StError(ShowMsg(e)))
            /\ sessions' = Returned(sessions, s, "failed")
            /\ UNCHANGED <<acceptRef, container, navCount, mounted>>
    /\ UNCHANGED <<variant, jwt, isLoaded, sdkRef>>

\* trigger.show() rejected, every other version: the one catch block
ShowRejects(s, e) ==
    /\ variant # "dispose"
    /\ sessions[s].pc = "show"
    /\ Catch(s, e)

\* the message listeners, were they to take the close branch on any message
DeliverOnAnyCloses(st, m) ==
    LET hit == {s \in 1..Len(st.sessions) : st.sessions[s].listener = "armed"}
        n == IF st.variant = "bankTransfer" THEN Cardinality(hit) ELSE 0
    IN [st EXCEPT
           !.sessions =
               [s \in 1..Len(st.sessions) |->
                   IF s \in hit
                   THEN [st.sessions[s] EXCEPT
                           !.listener = IF st.sessions[s].pc = "show"
                                        THEN "closedShow" ELSE "closedEarly",
                           !.navs = IF st.variant = "bankTransfer"
                                    THEN @ + 1 ELSE @]
                   ELSE st.sessions[s]],
           !.navCount = @ + n,
           !.mounted = IF n > 0 THEN FALSE ELSE @]

\* what the registered message listeners make of state st when a 'message'
\* event with data m is dispatched on window: every registered listener
\* runs; one that recognizes a close shape removes itself, and in
\* bankTransfer navigates
DeliverOn(st, m) ==
    LET hit == {s \in 1..Len(st.sessions) :
                   st.sessions[s].listener = "armed" /\ Recognizes(st.variant, m)}
        n == IF st.variant = "bankTransfer" THEN Cardinality(hit) ELSE 0
    IN IF hit = {} THEN st
       ELSE [st EXCEPT
                !.sessions =
                    [s \in 1..Len(st.sessions) |->
                        IF s \in hit
                        THEN [st.sessions[s] EXCEPT
                                !.listener = IF st.sessions[s].pc = "show"
                                             THEN "closedShow" ELSE "closedEarly",
                                !.navs = IF st.variant = "bankTransfer"
                                         THEN @ + 1 ELSE @]
                        ELSE st.sessions[s]],
                !.navCount = @ + n,
                !.mounted = IF n > 0 THEN FALSE ELSE @]

\* the message listeners, were the close branch to leave them registered
DeliverMessageKeepsListener(m) ==
    /\ LET hit == {s \in Ids : sessions[s].listener = "armed"
                                /\ Recognizes(variant, m)}
           n == IF variant = "bankTransfer" THEN Cardinality(hit) ELSE 0
       IN /\ sessions' =
                [s \in Ids |->
                    IF s \in hit
                    THEN [sessions[s] EXCEPT
                            !.navs = IF variant = "bankTransfer" THEN @ + 1 ELSE @]
                    ELSE sessions[s]]
          /\ navCount' = navCount + n
          /\ mounted' = IF n > 0 THEN FALSE ELSE mounted
    /\ UNCHANGED <<variant, jwt, status, isLoaded, isSuccess, isError,
                   sdkRef, acceptRef, container>>

\* a 'message' event on window while some listener is registered for it
DeliverMessage(m) ==
    /\ \E s \in Ids : sessions[s].listener = "armed"
    /\ UNCHANGED <<variant, jwt, status, isLoaded, isSuccess, isError,
                   sdkRef, acceptRef, container>>
    /\ LET after == DeliverOn(State, m)
       IN /\ navCount' = after.navCount
          /\ mounted' = after.mounted
          /\ sessions' = after.sessions

Next ==
    \/ \E t \in JwtInputs : SetJwt(t)
    \/ InitializeRejected
    \/ InitializeInjects
    \/ handleReset
    \/ \E s \in Ids : ScriptLoad(s)
    \/ \E s \in Ids : ScriptError(s)
    \/ \E s \in Ids : AcceptResolves(s)
    \/ \E s \in Ids, e \in Errs : AcceptRejects(s, e)
    \/ \E s \in Ids : UpResolves(s)
    \/ \E s \in Ids, e \in Errs : UpRejects(s, e)
    \/ \E s \in Ids : ShowResolves(s)
    \/ \E s \in Ids, e \in Errs : ShowRejectsDispose(s, e)
    \/ \E s \in Ids, e \in Errs : ShowRejects(s, e)
    \/ \E m \in Msgs : DeliverMessage(m)

Spec == Init /\ [][Next]_vars

TypeOK ==
    /\ variant \in Variants
    /\ mounted \in BOOLEAN
    /\ jwt \in JwtInputs
    /\ isLoaded \in BOOLEAN /\ isSuccess \in BOOLEAN /\ isError \in BOOLEAN
    /\ sdkRef \in 0..Len(sessions)
    /\ acceptRef \in 0..Len(sessions)
    /\ container \in {"empty", "form"}
    /\ Len(sessions) <= MaxSessions
    /\ navCount \in Nat


\* ---------------------------------------------------- derived vocabulary
\* the listener of session s is registered on window
Armed(s) == sessions[s].listener = "armed"

\* the listener of session s took its close branch
Closed(s) == sessions[s].listener \in {"closedEarly", "closedShow"}

\* the closure of session s is awaiting the SDK
AwaitingSdk(s) == sessions[s].pc \in {"accept", "up", "show"}

\* a callback of session s runs in this step: its closure moves on, or its
\* listener takes the close branch
SignalStep(s) ==
    \/ sessions'[s].pc # sessions[s].pc
    \/ sessions'[s].listener # sessions[s].listener

\* trigger.show() of session s settles in this step
ShowSettles(s) == sessions[s].pc = "show" /\ sessions'[s].pc = "done"

\* the session of the script held in sdkRef was cancelled
CurrentCancelled ==
    /\ sdkRef # 0
    /\ \/ Closed(sdkRef)
       \/ sessions[sdkRef].result = "cancelled"

\* The session state the component shows: getStatusClass ranks isSuccess
\* over isError; without a flag the state is the position of the session
\* whose script is held.
SessionState ==
    IF isSuccess THEN "Succeeded"
    ELSE IF isError THEN "Failed"
    ELSE IF ~isLoaded \/ sdkRef = 0 THEN "Idle"
    ELSE IF CurrentCancelled THEN "Cancelled"
    ELSE CASE sessions[sdkRef].pc = "loading" -> "ResourceLoading"
           [] sessions[sdkRef].pc \in {"accept", "up"} -> "SdkInitializing"
           [] sessions[sdkRef].pc = "show" -> "AwaitingUserInput"
           [] OTHER -> IF sessions[sdkRef].result = "success"
                       THEN "Succeeded" ELSE "Failed"

TerminalStates == {"Succeeded", "Cancelled", "Failed"}

AttachedScripts == {s \in Ids : sessions[s].attached}
Listeners == {s \in Ids : Armed(s)}
LiveInstances == {s \in Ids : sessions[s].instance = "live"}
SdkSessions == {s \in Ids : AwaitingSdk(s)}

\* ------------------------------------------------------------------ claims

\* C1: once the session state is Succeeded, Cancelled or Failed it does not
\* change until handleReset returns the controller to Idle: no late
\* callback and no initializeCheckout leaves a terminal state.
C1_TerminalUntilReset ==
    [][(SessionState \in TerminalStates =>
          \/ SessionState' = SessionState
          \/ handleReset /\ SessionState' = "Idle")]_vars

\* C2: when a recognized close message was delivered while trigger.show()
\* was pending, the later settlement of show() changes neither status,
\* isSuccess, isError nor issues a navigation.
C2_MessageFirst ==
    [][(\A s \in Ids :
          (sessions[s].listener = "closedShow" /\ ShowSettles(s))
              => UNCHANGED <<status, isSuccess, isError, navCount>>)]_vars

C4_FirstSignalWins ==
    [][(\A s \in Ids :
          (/\ sessions[s].listener = "closedShow" \/ sessions[s].pc = "done"
           /\ SignalStep(s))
              => UNCHANGED <<status, isSuccess, isError, navCount>>)]_vars

\* C5: at no instant are two injected scripts, two SDK sessions or two
\* message listeners of one controller alive.
C5_NoConcurrentSessions ==
    /\ Cardinality(AttachedScripts) <= 1
    /\ Cardinality(SdkSessions) <= 1
    /\ Cardinality(Listeners) <= 1

\* C6: at most one injected script element and at most one SDK instance
\* are alive at any instant.
C6_AtMostOneHandle ==
    /\ Cardinality(AttachedScripts) <= 1
    /\ Cardinality(LiveInstances) <= 1

\* C7: every handleReset leaves isLoaded, isSuccess and isError false, the
\* token empty, the initial status, no held script, no held SDK instance
\* and an empty render surface.
C7_ResetLeavesIdle ==
    [][(handleReset =>
          /\ ~isLoaded' /\ ~isSuccess' /\ ~isError'
          /\ jwt' = TokEmpty
          /\ status' = St("Waiting")
          /\ sdkRef' = 0
          /\ sdkRef # 0 => ~sessions'[sdkRef].attached
          /\ acceptRef' = 0
          /\ acceptRef # 0 => sessions'[acceptRef].instance = "disposed"
          /\ container' = "empty"
          /\ SessionState' = "Idle")]_vars

\* C7 witness: Idle right after a reset that superseded a session which
\* had rendered its form.
C7_Witness ==
    /\ SessionState = "Idle"
    /\ status = St("Waiting")
    /\ container = "empty"
    /\ \E s \in Ids : sessions[s].superseded /\ sessions[s].pc = "show"
                      /\ ~sessions[s].attached

\* C8: the completions of a session superseded by handleReset while it
\* awaited the SDK are ignored: they store no instance handle, change
\* neither status, isSuccess nor isError, and do not navigate.
C8_SupersededIgnored ==
    [][(\A s \in Ids :
          (sessions[s].superseded /\ AwaitingSdk(s)
           /\ sessions'[s].pc # sessions[s].pc)
              => UNCHANGED <<status, isSuccess, isError, acceptRef, navCount>>)]_vars

\* C9: a session that reached a terminal outcome (its closure returned, or
\* its listener took the close branch) has no listener registered.
C9_TerminalUnregisters ==
    \A s \in Ids :
        (sessions[s].pc = "done" \/ Closed(s)) => ~Armed(s)

\* C9 witness: one session ended on success after arming its listener,
\* another had its listener take the close branch while show() was pending.
C9_Witness ==
    /\ \E s \in Ids : sessions[s].result = "success"
                      /\ sessions[s].listener = "removed"
    /\ \E s \in Ids : sessions[s].listener = "closedShow"

\* C10: after handleReset no listener of the reset session stays
\* registered.
C10_ResetDisposesListener ==
    \A s \in Ids : sessions[s].superseded => ~Armed(s)


\* ------------------------------------------------- the decoding front end
\* The component with any token of Tokens typed into the textarea, and the
\* handlers that decode it: typing and initializeCheckout up to the injected
\* script, of whose events only the error event is kept (it lets Initialize
\* be pressed again while a script is held).
DecodeInit ==
    /\ variant \in Variants
    /\ mounted = TRUE
    /\ jwt \in Tokens
    /\ status = St("Waiting")
    /\ isLoaded = FALSE
    /\ isSuccess = FALSE
    /\ isError = FALSE
    /\ sdkRef = 0
    /\ acceptRef = 0
    /\ container = "empty"
    /\ sessions = <<>>
    /\ navCount = 0

DecodeNext ==
    \/ \E t \in Tokens : SetJwt(t)
    \/ InitializeRejected
    \/ InitializeInjects
    \/ \E s \in Ids : ScriptError(s)

DecodeSpec == DecodeInit /\ [][DecodeNext]_vars

\* a value read from the payload that is missing or empty
Missing(v) == v \in {Undefined, ""}

\* C11: getSdkMetadata never returns a metadata record with a missing or
\* empty field: for a malformed token it returns null, so every script that
\* initializeCheckout creates from its result has a resource location and
\* an integrity digest.
C11_NoPartialMetadata ==
    \A s \in Ids : ~Missing(sessions[s].src) /\ ~Missing(sessions[s].integrity)

\* C12: when decoding the token fails, initializeCheckout ends in Failed
\* (isError set, the invalid-token status shown) and touches no resource:
\* no script is created, attached or removed, no listener armed, no SDK call
\* made, and the held script handle, the held instance, isLoaded, the
\* payment container and the navigation count are as before.
C12_DecodeFailureTouchesNothing ==
    [][((InitializeRejected
         /\ ~TrimIsEmpty(jwt) /\ getSdkMetadata(jwt) = NoMetadata)
            => /\ isError' /\ status' = St("ErrInvalid")
               /\ UNCHANGED <<sessions, sdkRef, acceptRef, isLoaded,
                              container, navCount>>)]_vars

\* C12 witness: the one-segment token was rejected while a script of an
\* earlier attempt was attached and held.
C12_Witness ==
    /\ jwt = TokOnePart /\ isError /\ status = St("ErrInvalid")
    /\ isLoaded /\ sdkRef # 0 /\ sessions[sdkRef].attached

\* C13: when the script's error event fires, the controller reaches Failed
\* (isError set, isSuccess clear), window.Accept was never called for that
\* session and no SDK instance exists for it.
C13_LoadFailureFails ==
    [][(\A s \in Ids :
          (mounted /\ ScriptError(s))
              => /\ isError' /\ ~isSuccess'
                 /\ sessions'[s].pc = "done"
                 /\ sessions'[s].instance = "none")]_vars

\* C14: in the Failed state that a decode error or a load error leaves, no
\* injected script is attached to document.head and sdkRef holds none.
C14_NoPartialResources ==
    (isError /\ status \in {St("ErrInvalid"), St("ErrLoad")})
        => sdkRef = 0 /\ AttachedScripts = {}

\* the status shown while trigger.show() is pending
AwaitingStatus == {St("Ready"), St("WaitingUser")}

\* C15: when trigger.show() of the current session rejects with the reason
\* code COMPLETE_TRANSACTION_CANCELLED, the session ends Cancelled: it is not
\* Failed, and the outcome is surfaced, the status no longer being the
\* awaiting one.
C15_CancelCodeCancels ==
    [][(\A s \in Ids, e \in Errs :
          (mounted /\ sdkRef = s /\ HasCancelReason(e)
           /\ (ShowRejects(s, e) \/ ShowRejectsDispose(s, e)))
              => /\ sessions'[s].result = "cancelled"
                 /\ ~isError'
                 /\ status' \notin AwaitingStatus)]_vars

\* C16: when a promise of the SDK rejects with anything that does not carry
\* the reason code COMPLETE_TRANSACTION_CANCELLED, the session ends Failed
\* (never Cancelled) and the status shown carries the rejection's message.
C16_OtherRejectionsFail ==
    [][(\A s \in Ids, e \in Errs :
          (mounted /\ ~HasCancelReason(e)
           /\ (AcceptRejects(s, e) \/ UpRejects(s, e)
               \/ ShowRejects(s, e) \/ ShowRejectsDispose(s, e)))
              => /\ sessions'[s].result = "failed"
                 /\ isError'
                 /\ status' = StError(e.message))]_vars

\* C17: a recognized close message delivered while trigger.show() of the
\* current session is pending moves the session to Cancelled at once,
\* whatever the promise does later: the listener is unregistered and the
\* outcome is surfaced, by a status other than the awaiting one or by
\* leaving for the summary page.
C17_CloseMessageCancels ==
    [][(\A m \in Msgs, s \in Ids :
          (mounted /\ sdkRef = s /\ sessions[s].pc = "show" /\ Armed(s)
           /\ ~isError /\ ~isSuccess
           /\ Recognizes(variant, m) /\ DeliverMessage(m))
              => /\ Closed(s)'
                 /\ SessionState' = "Cancelled"
                 /\ status' \notin AwaitingStatus \/ sessions'[s].navs > 0)]_vars

\* C18: every confirmed cancellation of a session, whether trigger.show()
\* rejected with the reason code or a recognized close message reached its
\* listener, has issued navigate('/summary-page') once the handler is done.
C18_CancellationNavigates ==
    [][(\A s \in Ids :
          /\ \A e \in Errs :
                (mounted /\ HasCancelReason(e)
                 /\ (ShowRejects(s, e) \/ ShowRejectsDispose(s, e)))
                    => sessions'[s].navs > 0
          /\ \A m \in Msgs :
                (mounted /\ Armed(s) /\ sessions[s].pc = "show"
                 /\ Recognizes(variant, m) /\ DeliverMessage(m))
                    => sessions'[s].navs > 0)]_vars

\* C19: a session issues at most one navigation request, also when both a
\* close message and a rejection with the cancellation reason code occur
\* for it, in either order.
C19_AtMostOneNavigation ==
    \A s \in Ids : sessions[s].navs <= 1

\* C19 witness: a session whose listener navigated on a close message and
\* whose trigger.show() then rejected with the cancellation reason code.
C19_Witness ==
    \E s \in Ids : /\ ArmsListener(variant)
                    /\ sessions[s].navs = 1
                    /\ sessions[s].result = "cancelled"

\* C20: handleReset called twice in succession from any state leaves, after
\* the second call, exactly the state the first call produced, and the
\* second call finds no script to remove and no instance to dispose.
C20_ResetIdempotent ==
    LET once == handleResetOn(State)
    IN /\ handleResetOn(once) = once
       /\ once.sdkRef = 0
       /\ once.acceptRef = 0

\* C20 witness: the dispose version after handleReset removed a script and
\* disposed an instance; a further call changes nothing.
C20_Witness ==
    /\ variant = "dispose" /\ sdkRef = 0 /\ acceptRef = 0
    /\ \E s \in Ids : ~sessions[s].attached /\ sessions[s].instance = "disposed"
    /\ handleResetOn(State) = State

\* ------------------------------------------- cleanup under failing steps
\* window.Accept(jwt) resolved with an instance whose dispose() throws
AcceptResolvesFaulty(s) ==
    /\ sessions[s].pc = "accept"
    /\ sessions' = [sessions EXCEPT ![s].pc = "up", ![s].instance = "liveThrows"]
    /\ acceptRef' = IF variant = "dispose" THEN s ELSE acceptRef
    /\ UNCHANGED <<variant, mounted, jwt, status, isLoaded, isSuccess,
                   isError, sdkRef, container, navCount>>

\* document.head is shared with the rest of the page: other code (the
\* vendor script itself, for one) takes the script element out of it, after
\* which document.head.removeChild(sdkRef.current) throws NotFoundError
ScriptRemoved(s) ==
    /\ sessions[s].attached
    /\ sessions[s].pc # "loading"
    /\ sessions' = [sessions EXCEPT ![s].attached = FALSE]
    /\ UNCHANGED <<variant, mounted, jwt, status, isLoaded, isSuccess,
                   isError, sdkRef, acceptRef, container, navCount>>

\* the component with the cleanup steps of handleReset made to fail
FaultNext ==
    \/ \E t \in JwtInputs : SetJwt(t)
    \/ InitializeRejected
    \/ InitializeInjects
    \/ handleReset
    \/ \E s \in Ids : ScriptLoad(s)
    \/ \E s \in Ids : ScriptError(s)
    \/ \E s \in Ids : AcceptResolves(s)
    \/ \E s \in Ids : AcceptResolvesFaulty(s)
    \/ \E s \in Ids : UpResolves(s)
    \/ \E s \in Ids : ShowResolves(s)
    \/ \E s \in Ids : ScriptRemoved(s)

FaultSpec == Init /\ [][FaultNext]_vars

\* C21: handleReset never throws: when dispose() throws or removeChild
\* fails the failure is swallowed and the reset still completes every
\* cleanup step, so that wherever it is called it leaves the instance handle
\* and the script handle cleared, the payment container empty and the
\* component Idle.
C21_ResetCompletes ==
    HasReset(variant) =>
        LET after == handleResetOn(State)
        IN /\ after.sdkRef = 0
           /\ after.acceptRef = 0
           /\ after.container = "empty"
           /\ after.jwt = TokEmpty
           /\ ~after.isLoaded /\ ~after.isSuccess /\ ~after.isError
           /\ after.status = St("Waiting")

\* C22: every instance that window.Accept produced is disposed before the
\* controller is Idle again: no state that shows Idle has a live instance of
\* an earlier session, also when the reset came while window.Accept was
\* pending.
C22_IdleHasNoLiveInstance ==
    SessionState = "Idle" => LiveInstances = {}

\* C23: in every state of the mounted component other than the pristine one
\* (no token, not loaded, no error) the reset operation is available.
C23_ResetAvailable ==
    (mounted /\ ~(jwt = TokEmpty /\ ~isLoaded /\ ~isError)) => ResetEnabled

\* C24: the happy path.  While the session whose script is held receives no
\* close message and no reset, and it is the only session the component
\* ever started, script load takes it from ResourceLoading to
\* SdkInitializing, the resolution of window.Accept keeps it there, the
\* resolution of unifiedPayments takes it to AwaitingUserInput, and the
\* resolution of trigger.show() ends it in Succeeded with isSuccess set and
\* isError clear.
C24_HappyPath ==
    [][(\A s \in Ids :
          (mounted /\ sdkRef = s /\ ~Closed(s)
           /\ Ids = {s})
              => /\ ScriptLoad(s)
                      => /\ SessionState = "ResourceLoading"
                         /\ SessionState' = "SdkInitializing"
                 /\ AcceptResolves(s)
                      => /\ SessionState = "SdkInitializing"
                         /\ SessionState' = "SdkInitializing"
                 /\ UpResolves(s)
                      => /\ SessionState = "SdkInitializing"
                         /\ SessionState' = "AwaitingUserInput"
                 /\ ShowResolves(s)
                      => /\ SessionState = "AwaitingUserInput"
                         /\ SessionState' = "Succeeded"
                         /\ isSuccess' /\ ~isError')]_vars

\* C25: in the versions that arm a message listener, the listener was
\* registered before trigger.show() is requested: a session that awaits
\* unifiedPayments or show() has had its listener added.
C25_ArmedBeforeShow ==
    \A s \in Ids :
        (ArmsListener(variant) /\ sessions[s].pc \in {"up", "show"})
            => sessions[s].listener # "none"

\* C25 witness: trigger.show() is pending with the listener registered.
C25_Witness ==
    \E s \in Ids : /\ ArmsListener(variant)
                    /\ sessions[s].pc = "show"
                    /\ Armed(s)
                    /\ status = St("Ready")

\* C26: window.Accept is called for a session only by its script's load
\* event: a session starts to await window.Accept only in a ScriptLoad step
\* taken while its script was loading, and a session whose script failed to
\* load stays returned.
C26_AcceptOnlyAfterLoad ==
    [][(\A s \in Ids :
          /\ (sessions'[s].pc = "accept" /\ sessions[s].pc # "accept")
                => (sessions[s].pc = "loading" /\ ScriptLoad(s))
          /\ sessions[s].result = "loaderror"
                => (sessions'[s].pc = "done" /\ sessions'[s].instance = "none"))]_vars

\* C26 witness: window.Accept is pending right after the load event, and a
\* session whose script failed to load has no instance.
C26_Witness ==
    /\ \E s \in Ids : sessions[s].pc = "accept" /\ sdkRef = s
    /\ \E s \in Ids : sessions[s].result = "loaderror"

\* C27: a message that matches no close shape the version recognizes (a
\* telegram whose body is not JSON, a telegram with another event, null, an
\* object without the closeApp source) is ignored: in whatever state it is
\* delivered, it changes neither the component's state, nor any listener
\* registration, nor the navigation count.
C27_UnrecognizedIgnored ==
    \A m \in Msgs : ~Recognizes(variant, m) => DeliverOn(State, m) = State

\* C27 witness: a listener is registered while window.Accept is pending,
\* where every message of Msgs can be delivered to it.
C27_Witness ==
    \E s \in Ids : /\ Armed(s)
                    /\ sessions[s].pc = "accept"
                    /\ \E m \in Msgs : ~Recognizes(variant, m)

\* C28: both close shapes are equally valid cancellation signals: in every
\* version that arms a listener, a listener registered while trigger.show()
\* is pending takes its close branch on the telegram CLOSE string and on the
\* closeApp payload alike.
C28_BothShapesClose ==
    \A s \in Ids :
        (ArmsListener(variant) /\ Armed(s) /\ sessions[s].pc = "show")
            => /\ Recognizes(variant, MsgTelegramClose)
               /\ Recognizes(variant, MsgCloseApp)

\* C29: isSuccess and isError are never both set.
C29_FlagsExclusive == ~(isSuccess /\ isError)

\* C30: every initializeCheckout call that gets past validation and
\* decoding clears isError and isSuccess before it injects the script.
C30_InitClearsFlags ==
    [][(InitializeInjects => (~isError' /\ ~isSuccess'))]_vars

\* C31: between handlers isLoaded is true exactly when sdkRef holds a
\* script: injection sets both, handleReset clears both, and no handler
\* changes one without the other.
C31_LoadedIffHandle == isLoaded <=> (sdkRef # 0)

\* C31 witness: a script is held and isLoaded is set after an earlier
\* script was removed by a reset.
C31_Witness ==
    /\ isLoaded /\ sdkRef # 0 /\ sessions[sdkRef].attached
    /\ \E s \in Ids : s # sdkRef /\ ~sessions[s].attached

\* C32: initializeCheckout called with an empty or whitespace-only token is
\* rejected before decoding: it sets isError and the empty-token status,
\* injects no script, arms no listener, makes no SDK call, and leaves
\* isLoaded, the held script and the held instance unchanged.
C32_EmptyTokenRejected ==
    [][((InitializeRejected /\ jwt \in {TokEmpty, TokBlank})
            => /\ isError' /\ status' = St("ErrEmpty")
               /\ UNCHANGED <<sessions, sdkRef, acceptRef, isLoaded,
                              container, navCount>>)]_vars

\* C32 witness: the whitespace-only token was rejected while a script that
\* failed to load was attached and held.
C32_Witness ==
    /\ jwt = TokBlank /\ isError /\ status = St("ErrEmpty")
    /\ isLoaded /\ sdkRef # 0 /\ sessions[sdkRef].attached
    /\ HasOnError(variant)

====
